---- MODULE Spec2Model ----
(***************************************************************************)
(* db-train-info: the trip data model and its derived queries.             *)
(*                                                                         *)
(* A Trip, a TimeInfo and a Status are immutable values decoded from JSON.  *)
(* The state is one of each (trip, timeInfo, trainStatus), the environment *)
(* the program runs in (env: the time formats the platform cannot render), *)
(* the outcome of the last query that was called (call), an earlier call a *)
(* caller has kept to compare with (snapshot), and whether the process is  *)
(* still running (status: a Rust panic ends it).  Every query of the       *)
(* source is one action.                                                   *)
(*                                                                         *)
(* A String is modelled as the sequence of its UTF-8 bytes, each byte      *)
(* written as a one-byte token: the ASCII characters stand for themselves, *)
(* "C3" and "A9" are the two bytes of U+00E9.                              *)
(***************************************************************************)
EXTENDS Integers, Sequences, FiniteSets, TLC

VARIABLES trip, timeInfo, trainStatus, env, status, call, snapshot

vars == <<trip, timeInfo, trainStatus, env, status, call, snapshot>>

(***************************************************************************)
(* Bounds of the model.                                                    *)
(***************************************************************************)
MaxLen == 3
MaxStops == 2

(***************************************************************************)
(* Strings as byte sequences.                                              *)
(***************************************************************************)
AsciiBytes == {"+", "-", "0", "1", "2", "5", "x"}

Digits == {"0", "1", "2", "5"}

LeadByte == "C3"

ContinuationByte == "A9"

Bytes == AsciiBytes \cup {LeadByte, ContinuationByte}

RECURSIVE Utf8Valid(_)
Utf8Valid(b) ==
    IF b = <<>> THEN TRUE
    ELSE IF Head(b) \in AsciiBytes THEN Utf8Valid(Tail(b))
    ELSE IF Head(b) = LeadByte
         THEN /\ Len(b) >= 2
              /\ b[2] = ContinuationByte
              /\ Utf8Valid(Tail(Tail(b)))
    ELSE FALSE

BytesUpTo(n) == UNION {[1..k -> Bytes] : k \in 0..n}

\* The values a String field can hold: valid UTF-8 only.
Strings == {b \in BytesUpTo(MaxLen) : Utf8Valid(b)}

(***************************************************************************)
(* Outcomes of a call.                                                     *)
(***************************************************************************)
Value(v) == [kind |-> "Value", value |-> v]

Panic == [kind |-> "panic"]

Minutes(n) == [kind |-> "Duration", minutes |-> n]

None == [kind |-> "None"]

Some(v) == [kind |-> "Some", value |-> v]

Ok(v) == [ok |-> TRUE, val |-> v]

Err == [ok |-> FALSE, val |-> 0]

(***************************************************************************)
(* str::parse::<i64>: an optional sign, then one or more decimal digits,   *)
(* accumulated left to right (added for a positive number, subtracted for  *)
(* a negative one).  The strings of the model are shorter than 19 digits,  *)
(* so the checked multiplications and additions never overflow an i64.     *)
(***************************************************************************)
DigitVal == ("0" :> 0) @@ ("1" :> 1) @@ ("2" :> 2) @@ ("5" :> 5)

RECURSIVE Accumulate(_, _, _)
Accumulate(digits, acc, positive) ==
    IF digits = <<>> THEN Ok(acc)
    ELSE IF Head(digits) \notin DOMAIN DigitVal THEN Err
    ELSE Accumulate(Tail(digits),
                    IF positive THEN acc * 10 + DigitVal[Head(digits)]
                                ELSE acc * 10 - DigitVal[Head(digits)],
                    positive)

ParseI64(src) ==
    IF src = <<>> THEN Err
    ELSE LET positive == Head(src) # "-"
             digits == IF Head(src) \in {"+", "-"} THEN Tail(src) ELSE src
         IN  IF digits = <<>> THEN Err ELSE Accumulate(digits, 0, positive)

\* str::from_utf8(..).unwrap().parse::<i64>().unwrap(): a panic, or the number.
FromUtf8ParseUnwrap(bytes) ==
    IF ~Utf8Valid(bytes) THEN Panic
    ELSE LET parsed == ParseI64(bytes)
         IN  IF parsed.ok THEN Ok(parsed.val) ELSE Panic

(***************************************************************************)
(* TimeInfo::delay_string_to_duration                                      *)
(***************************************************************************)
\* The negation of the second branch left out.
delay_string_to_duration_unsigned(delay_string) ==
    IF delay_string = <<>> THEN Minutes(0)
    ELSE LET n == FromUtf8ParseUnwrap(Tail(delay_string))
         IN  IF n = Panic THEN Panic ELSE Minutes(n.val)

\* The empty string not set apart: [1..] of an empty slice panics.
delay_string_to_duration_no_empty(delay_string) ==
    IF delay_string = <<>> THEN Panic
    ELSE LET n == FromUtf8ParseUnwrap(Tail(delay_string))
         IN  IF n = Panic THEN Panic
             ELSE IF Head(delay_string) = "+"
                  THEN Minutes(n.val)
                  ELSE Minutes(-(n.val))

delay_string_to_duration(delay_string) ==
    IF delay_string = <<>> THEN Minutes(0)
    ELSE LET n == FromUtf8ParseUnwrap(Tail(delay_string))
         IN  IF n = Panic THEN Panic
             ELSE IF Head(delay_string) = "+"
                  THEN Minutes(n.val)
                  ELSE Minutes(-(n.val))

(***************************************************************************)
(* f64 (IEEE-754 binary64), round to nearest, ties to even.                *)
(*                                                                         *)
(* A finite f64 is [neg, exp, mant]: mant is the 53-bit significand, most  *)
(* significant bit first, and the value is (-1)^neg * 1.mant[2..53] *      *)
(* 2^exp; zero is the all-zero significand with exp 0.  The values the     *)
(* program computes are quotients of an i64 by 1000 and differences of two *)
(* such quotients: they are zero or normal numbers, so subnormals,         *)
(* infinities and NaN do not arise and are not represented.                *)
(***************************************************************************)
MantissaBits == 53

Zeros(n) == [i \in 1..n |-> 0]

F64Zero == [neg |-> FALSE, exp |-> 0, mant |-> Zeros(MantissaBits)]

IsZero(x) == x.mant = Zeros(MantissaBits)

Abs(n) == IF n < 0 THEN -n ELSE n

RECURSIVE BitsOfNat(_)
BitsOfNat(n) == IF n = 0 THEN <<>> ELSE Append(BitsOfNat(n \div 2), n % 2)

StripLeadingZeros(bits) ==
    LET ones == {i \in 1..Len(bits) : bits[i] = 1}
    IN  IF ones = {} THEN <<>>
        ELSE SubSeq(bits, CHOOSE i \in ones : \A j \in ones : i <= j, Len(bits))

PadLeft(bits, n) == Zeros(n - Len(bits)) \o bits

\* a + b for two bit strings of the same length; one bit longer.  The carry
\* into place i comes from the nearest lower place where both bits are set,
\* through places where exactly one is.
AddBits(a, b) ==
    LET n == Len(a)
        carry(i) == \E j \in (i + 1)..n :
                        /\ a[j] = 1 /\ b[j] = 1
                        /\ \A k \in (i + 1)..(j - 1) : a[k] # b[k]
        bit(i) == IF i = 0 THEN 0 ELSE a[i] + b[i]
    IN  [i \in 1..(n + 1) |->
            (bit(i - 1) + IF carry(i - 1) THEN 1 ELSE 0) % 2]

\* a - b for two bit strings of the same length with a >= b.  The borrow from
\* place i comes from the nearest lower place where a has 0 and b has 1,
\* through places where the bits agree.
SubBits(a, b) ==
    LET n == Len(a)
        borrow(i) == \E j \in (i + 1)..n :
                         /\ a[j] = 0 /\ b[j] = 1
                         /\ \A k \in (i + 1)..(j - 1) : a[k] = b[k]
    IN  [i \in 1..n |-> (a[i] - b[i] + 2 - IF borrow(i) THEN 1 ELSE 0) % 2]

\* a >= b for two bit strings of the same length.
GeqBits(a, b) ==
    LET differ == {i \in 1..Len(a) : a[i] # b[i]}
    IN  \/ differ = {}
        \/ \E i \in differ : a[i] = 1 /\ \A j \in differ : i <= j

\* The f64 nearest to (-1)^neg * (bits + fraction) * 2^unitExp, where bits is
\* a bit string with a leading 1 and sticky says that the fraction, in [0, 1),
\* is not zero.
Round(neg, bits, sticky, unitExp) ==
    IF Len(bits) <= MantissaBits
    THEN [neg |-> neg, exp |-> unitExp + Len(bits) - 1,
          mant |-> bits \o Zeros(MantissaBits - Len(bits))]
    ELSE LET kept == SubSeq(bits, 1, MantissaBits)
             guard == bits[MantissaBits + 1]
             rest == sticky \/ \E i \in (MantissaBits + 2)..Len(bits) : bits[i] = 1
             up == guard = 1 /\ (rest \/ kept[MantissaBits] = 1)
             sum == AddBits(kept, PadLeft(<<1>>, MantissaBits))
             top == unitExp + Len(bits) - 1
         IN  IF ~up THEN [neg |-> neg, exp |-> top, mant |-> kept]
             ELSE IF Head(sum) = 1
                  THEN [neg |-> neg, exp |-> top + 1,
                        mant |-> SubSeq(sum, 1, MantissaBits)]
                  ELSE [neg |-> neg, exp |-> top, mant |-> Tail(sum)]

\* `n as f64` for an i64 n.
I64AsF64(n) ==
    IF n = 0 THEN F64Zero ELSE Round(n < 0, BitsOfNat(Abs(n)), FALSE, 0)

RECURSIVE Pow2(_)
Pow2(k) == IF k = 0 THEN 1 ELSE 2 * Pow2(k - 1)

\* The next count bits of the binary expansion of r / d, for 0 <= r < d, and
\* the remainder that is left: long division, a byte of the quotient a step.
RECURSIVE FractionBits(_, _, _, _)
FractionBits(r, d, count, acc) ==
    IF count = 0 THEN [bits |-> acc, rem |-> r]
    ELSE LET k == IF count < 8 THEN count ELSE 8
             scaled == r * Pow2(k)
         IN  FractionBits(scaled % d, d, count - k,
                          acc \o PadLeft(BitsOfNat(scaled \div d), k))

\* The number of leading zero bits of the binary expansion of r / d, 0 < r < d.
RECURSIVE LeadingZeros(_, _)
LeadingZeros(r, d) == IF 2 * r >= d THEN 0 ELSE 1 + LeadingZeros(2 * r, d)

\* (n as f64) / (d as f64) for integers n and d > 0 that an f64 holds exactly:
\* IEEE-754 division returns the exact quotient n / d, rounded once.
F64Quotient(n, d) ==
    IF n = 0 THEN F64Zero
    ELSE LET q == Abs(n) \div d
             r == Abs(n) % d
             whole == BitsOfNat(q)
             z == LeadingZeros(r, d)
             more == IF q > 0
                     THEN FractionBits(r, d, MantissaBits + 1 - Len(whole), <<>>)
                     ELSE FractionBits(r * Pow2(z), d, MantissaBits + 1, <<>>)
         IN  IF q > 0
             THEN Round(n < 0, whole \o more.bits, more.rem # 0,
                        -(MantissaBits + 1 - Len(whole)))
             ELSE Round(n < 0, more.bits, more.rem # 0,
                        -(z + MantissaBits + 1))

F64Neg(x) == [x EXCEPT !.neg = ~x.neg]

\* x + y: the exact sum of the two values, rounded once.
F64Add(x, y) ==
    IF IsZero(x) /\ IsZero(y) THEN [F64Zero EXCEPT !.neg = x.neg /\ y.neg]
    ELSE IF IsZero(x) THEN y
    ELSE IF IsZero(y) THEN x
    ELSE LET e == IF x.exp < y.exp THEN x.exp ELSE y.exp
             xs == x.mant \o Zeros(x.exp - e)
             ys == y.mant \o Zeros(y.exp - e)
             n == IF Len(xs) > Len(ys) THEN Len(xs) ELSE Len(ys)
             a == PadLeft(xs, n)
             b == PadLeft(ys, n)
             unit == e - (MantissaBits - 1)
         IN  IF x.neg = y.neg
             THEN Round(x.neg, StripLeadingZeros(AddBits(a, b)), FALSE, unit)
             ELSE IF a = b THEN F64Zero
             ELSE IF GeqBits(a, b)
                  THEN Round(x.neg, StripLeadingZeros(SubBits(a, b)), FALSE, unit)
                  ELSE Round(y.neg, StripLeadingZeros(SubBits(b, a)), FALSE, unit)

\* x - y
F64Sub(x, y) == F64Add(x, F64Neg(y))

F64Negative(x) == x.neg /\ ~IsZero(x)

(***************************************************************************)
(* i64 timestamps and i32 nanoseconds.                                     *)
(*                                                                         *)
(* A timestamp covers the whole i64 range, so it is [neg, mag]: a sign and *)
(* the magnitude as four 16-bit limbs, most significant first; zero is not *)
(* negative.  An i32 is an integer of the model.                           *)
(***************************************************************************)
Limb == 65536

Limbs == 4

ZeroMag == [i \in 1..Limbs |-> 0]

\* The i64 of a small non-negative number with a sign.
I64Small(neg, n) ==
    [neg |-> neg /\ n # 0, mag |-> [ZeroMag EXCEPT ![Limbs] = n]]

\* Schoolbook division of a magnitude by d < 2^15, r the running remainder.
RECURSIVE ShortDivision(_, _, _)
ShortDivision(mag, d, r) ==
    IF mag = <<>> THEN [quot |-> <<>>, rem |-> r]
    ELSE LET cur == r * Limb + Head(mag)
             rest == ShortDivision(Tail(mag), d, cur % d)
         IN  [quot |-> <<cur \div d>> \o rest.quot, rem |-> rest.rem]

\* The remainder with the sign of a non-negative divisor's modulus instead
\* of the dividend's (rem_euclid).
I64Rem_euclid(x, d) ==
    LET r == ShortDivision(x.mag, d, 0).rem
    IN  I64Small(FALSE, IF x.neg /\ r # 0 THEN d - r ELSE r)

\* x / d on i64, for a literal d > 0: the quotient truncated toward zero.
I64Div(x, d) ==
    LET q == ShortDivision(x.mag, d, 0).quot
    IN  [neg |-> x.neg /\ q # ZeroMag, mag |-> q]

\* x % d on i64, for a literal d > 0: the remainder has the sign of x.
I64Rem(x, d) == I64Small(x.neg, ShortDivision(x.mag, d, 0).rem)

I32Max == 2147483647

I32Min == -I32Max - 1

\* The signed value of the 32 bits hi * 2^16 + lo.
I32OfLimbs(hi, lo) ==
    IF hi >= Limb \div 2 THEN (hi - Limb) * Limb + lo ELSE hi * Limb + lo

\* x as i32: the low 32 bits of the two's complement of x.
AsI32(x) ==
    LET hi == x.mag[Limbs - 1]
        lo == x.mag[Limbs]
    IN  IF ~x.neg THEN I32OfLimbs(hi, lo)
        ELSE IF lo # 0 THEN I32OfLimbs(Limb - 1 - hi, Limb - lo)
        ELSE IF hi # 0 THEN I32OfLimbs(Limb - hi, 0)
        ELSE 0

\* a % d on i32, for a literal d > 0: the remainder has the sign of a.
I32Rem(a, d) ==
    IF a >= 0 THEN a % d ELSE -((((-(a + 1)) % d) + 1) % d)

\* a + b on i32, wrapped to 32 bits.
WrappingAdd(a, b) ==
    IF a >= 0 /\ b >= 0 /\ a > I32Max - b
      THEN ((a - I32Max - 1) + b) - I32Max - 1
    ELSE IF a < 0 /\ b < 0 /\ a < I32Min - b
      THEN ((a + I32Max + 1) + b) + I32Max + 1
    ELSE a + b

\* a * b on i32 for a literal b >= 0, wrapped to 32 bits.
RECURSIVE WrappingMul(_, _)
WrappingMul(a, b) ==
    IF b = 0 THEN 0
    ELSE LET half == WrappingMul(a, b \div 2)
             twice == WrappingAdd(half, half)
         IN  IF b % 2 = 1 THEN WrappingAdd(twice, a) ELSE twice

\* Whether a * b leaves the i32 range, for a literal b > 0.
MulOverflows(a, b) ==
    \/ a > I32Max \div b
    \/ a < -(I32Max \div b) - (IF I32Max % b = b - 1 THEN 1 ELSE 0)

\* a * b on i32 for a literal b > 0: the outcomes the build can produce.  A
\* build with overflow checks panics on an overflow, one without wraps.
I32Mul(a, b) ==
    IF MulOverflows(a, b) THEN {Panic, Value(WrappingMul(a, b))}
    ELSE {Value(a * b)}

(***************************************************************************)
(* The values of the model.  Station ids are only ever compared for        *)
(* equality, so they are atoms.  A Stop carries the fields the queries     *)
(* read: station.evaNr and info.distance.  An Option<&Stop> is the index   *)
(* of the stop it refers to in trip.stops.                                 *)
(***************************************************************************)
StationIds == {"S1", "S2"}

\* "S9" names no stop.
VicinityIds == StationIds \cup {"S9"}

OtherIds == {"S1", "S9"}

Distances == {0, 300, 5000}

FromLastStop == {100, 2000}

TotalDistances == {1000}

\* Further arguments of distance_to_km, and further values of the two trip
\* distances where only the conversion is looked at.
OtherMeters == {-5000, -500, -1, 1, 999, 1999}

Stops == [station : [evaNr : StationIds], info : [distance : Distances]]

StopSeqs == UNION {[1..k -> Stops] : k \in 0..MaxStops}

\* scheduledNext and actualLastStarted vary, and differ from each other.
Vicinities ==
    {v \in [scheduledNext : OtherIds, actualNext : VicinityIds,
            actualLast : VicinityIds, actualLastStarted : OtherIds,
            finalStationEvaNr : VicinityIds, finalStationName : {"Hbf"}] :
        v.scheduledNext # v.actualLastStarted}

Trips ==
    [tripDate : {"2016-06-01"}, trainType : {<<"I", "C", "E">>},
     vzn : {<<"1", "2", "3">>}, actualPosition : {0},
     distanceFromLastStop : FromLastStop, totalDistance : TotalDistances,
     stopInfo : Vicinities, stops : StopSeqs]

Stop(id, distance) == [station |-> [evaNr |-> id], info |-> [distance |-> distance]]

\* One trip: S1 at 0 m, S2 at 5000 m, the train 2000 m after S1 on the way
\* to S2.
ScenarioTrip ==
    [tripDate |-> "2016-06-01", trainType |-> <<"I", "C", "E">>,
     vzn |-> <<"1", "2", "3">>, actualPosition |-> 0,
     distanceFromLastStop |-> 2000, totalDistance |-> 1000,
     stopInfo |-> [scheduledNext |-> "S1", actualNext |-> "S2",
                   actualLast |-> "S1", actualLastStarted |-> "S9",
                   finalStationEvaNr |-> "S2", finalStationName |-> "Hbf"],
     stops |-> <<Stop("S1", 0), Stop("S2", 5000)>>]

SampleDelays == {<<>>, <<"+", "5">>, <<"-", "1", "2">>, <<"5">>}

I64Min == [neg |-> TRUE, mag |-> <<Limb \div 2, 0, 0, 0>>]

I64Max == [neg |-> FALSE, mag |-> <<Limb \div 2 - 1, Limb - 1, Limb - 1, Limb - 1>>]

\* 2016-06-04T00:26:40.123Z in milliseconds (1465000000123).
SampleTime == [neg |-> FALSE, mag |-> <<0, 341, 6349, 64123>>]

\* Timestamps: both signs, the ends of the i64 range, and the values around
\* a whole second in the lowest limb.
Timestamps ==
    {x \in [neg : BOOLEAN,
            mag : {<<a, b, c, d>> : a \in {0, 1, Limb \div 2 - 1},
                                    b \in {0, Limb - 1}, c \in {0, Limb - 1},
                                    d \in {0, 1, 999, 1000, Limb - 1}}] :
        ~(x.neg /\ x.mag = ZeroMag)}
      \cup {I64Min, SampleTime}

\* Every string in one of the two delay fields, a sample in the other; the
\* times of a stop in the middle of the route.
TimeInfos ==
    [scheduledArrivalTime : {Some(SampleTime)},
     actualArrivalTime : {Some(SampleTime)},
     arrivalDelay : Strings,
     scheduledDepartureTime : {Some(SampleTime)},
     actualDepartureTime : {Some(SampleTime)},
     departureDelay : SampleDelays]
        \cup [scheduledArrivalTime : {Some(SampleTime)},
              actualArrivalTime : {Some(SampleTime)},
              arrivalDelay : SampleDelays,
              scheduledDepartureTime : {Some(SampleTime)},
              actualDepartureTime : {Some(SampleTime)},
              departureDelay : Strings]

ScenarioTimeInfo ==
    [scheduledArrivalTime |-> Some(SampleTime),
     actualArrivalTime |-> Some(SampleTime),
     arrivalDelay |-> <<>>,
     scheduledDepartureTime |-> Some(SampleTime),
     actualDepartureTime |-> Some(SampleTime),
     departureDelay |-> <<"+", "5">>]

\* The times of a first stop (no arrival), of a last stop (no departure) and
\* of stops in between, with times of both signs and at the ends of i64.
TimetableInfos ==
    {[ScenarioTimeInfo EXCEPT !.scheduledArrivalTime = None,
                              !.actualArrivalTime = None],
     [ScenarioTimeInfo EXCEPT !.scheduledDepartureTime = None,
                              !.actualDepartureTime = None],
     ScenarioTimeInfo,
     [ScenarioTimeInfo EXCEPT !.scheduledArrivalTime = Some(I64Min),
                              !.actualArrivalTime = Some(I64Max),
                              !.scheduledDepartureTime = Some(I64Small(TRUE, 1)),
                              !.actualDepartureTime = Some(I64Small(TRUE, 1999))],
     [ScenarioTimeInfo EXCEPT !.scheduledArrivalTime = Some(I64Small(FALSE, 0)),
                              !.actualArrivalTime = Some(I64Small(TRUE, 1000)),
                              !.scheduledDepartureTime = Some(I64Max),
                              !.actualDepartureTime = Some(I64Min)]}

\* An f32 is only ever copied and formatted, so it is an atom.
Speeds == {"0.0", "187.5"}

Statuses ==
    [speed : Speeds, latitude : {"50.1071"}, longitude : {"8.6638"},
     serverTime : Timestamps]

ScenarioStatus ==
    [speed |-> "187.5", latitude |-> "50.1071", longitude |-> "8.6638",
     serverTime |-> SampleTime]

\* The formats of the two Display implementations.
Formats == {"%H:%M:%S", "%Y-%m-%d %H:%M:%S"}

(***************************************************************************)
(* impl Trip (src/trip_info/trip.rs)                                       *)
(***************************************************************************)
RECURSIVE ScanStops(_, _, _)
ScanStops(stops, eva_nr, i) ==
    IF i > Len(stops) THEN None
    ELSE IF stops[i].station.evaNr = eva_nr THEN Some(i)
    ELSE ScanStops(stops, eva_nr, i + 1)

\* A scan that keeps the last match instead of returning at the first.
get_stop_last(t, eva_nr) ==
    LET matches == {i \in 1..Len(t.stops) : t.stops[i].station.evaNr = eva_nr}
    IN  IF matches = {} THEN None
        ELSE Some(CHOOSE i \in matches : \A j \in matches : j <= i)

get_stop(t, eva_nr) == ScanStops(t.stops, eva_nr, 1)

\* The scheduled next stop in place of the actual one.
next_stop_scheduled(t) == get_stop(t, t.stopInfo.scheduledNext)

next_stop(t) == get_stop(t, t.stopInfo.actualNext)

previous_stop(t) == get_stop(t, t.stopInfo.actualLast)

\* The f64 arithmetic of the queries, tabulated over the distances of the
\* model so that each quotient and each difference is computed once.
Meters == Distances \cup FromLastStop \cup TotalDistances \cup OtherMeters

Quotients == [m \in Meters |-> F64Quotient(m, 1000)]

Differences ==
    [x \in {Quotients[m] : m \in Meters} |->
        [y \in {Quotients[m] : m \in Meters} |-> F64Sub(x, y)]]

\* The division done on the integers, before the conversion.
distance_to_km_whole(distance) == I64AsF64(distance \div 1000)

\* distance as f64 / 1000f64
distance_to_km(distance) == Quotients[distance]

distance_to_previous_stop(t) == distance_to_km(t.distanceFromLastStop)

\* next_stop().unwrap() in place of the match.
distance_to_next_stop_unwrap(t) ==
    LET stop == next_stop(t)
    IN  IF stop.kind = "Some"
        THEN Some(Differences[distance_to_km(t.stops[stop.value].info.distance)]
                             [distance_to_previous_stop(t)])
        ELSE Panic

\* The difference taken in meters, converted once.
distance_to_next_stop_in_meters(t) ==
    LET stop == next_stop(t)
    IN  IF stop.kind = "Some"
        THEN Some(F64Quotient(t.stops[stop.value].info.distance
                              - t.distanceFromLastStop, 1000))
        ELSE None

distance_to_next_stop(t) ==
    LET stop == next_stop(t)
    IN  IF stop.kind = "Some"
        THEN Some(Differences[distance_to_km(t.stops[stop.value].info.distance)]
                             [distance_to_previous_stop(t)])
        ELSE None

\* The stop behind the train in place of the stop ahead.
distance_between_adjacent_stops_previous(t) ==
    LET stop == previous_stop(t)
    IN  IF stop.kind = "Some"
        THEN Some(distance_to_km(t.stops[stop.value].info.distance))
        ELSE None

distance_between_adjacent_stops(t) ==
    LET stop == next_stop(t)
    IN  IF stop.kind = "Some"
        THEN Some(distance_to_km(t.stops[stop.value].info.distance))
        ELSE None

total_distance(t) == distance_to_km(t.totalDistance)

train_identifier(t) == t.trainType \o <<" ">> \o t.vzn

train_type(t) == t.trainType

train_number(t) == t.vzn

\* The last element in place of the first.
origin_last(t) == IF Len(t.stops) > 0 THEN Some(Len(t.stops)) ELSE None

origin(t) == IF Len(t.stops) > 0 THEN Some(1) ELSE None

destination(t) == get_stop(t, t.stopInfo.finalStationEvaNr)

(***************************************************************************)
(* impl Trip of the other revision (src/trip_info.rs), on the same Trip    *)
(* values: the fields the queries read have the same names and types.      *)
(***************************************************************************)
\* for stop in &self.stops { if stop.station.evaNr == *eva_nr { return Some(stop); } }
RECURSIVE trip_info_for_stop(_, _, _)
trip_info_for_stop(stops, eva_nr, i) ==
    IF i > Len(stops) THEN None
    ELSE IF stops[i].station.evaNr = eva_nr THEN Some(i)
    ELSE trip_info_for_stop(stops, eva_nr, i + 1)

trip_info_get_stop(t, eva_nr) == trip_info_for_stop(t.stops, eva_nr, 1)

trip_info_next_stop(t) == trip_info_get_stop(t, t.stopInfo.actualNext)

\* The stop the train last started from in place of the last stop.
trip_info_previous_stop_started(t) ==
    trip_info_get_stop(t, t.stopInfo.actualLastStarted)

trip_info_previous_stop(t) == trip_info_get_stop(t, t.stopInfo.actualLast)

trip_info_Quotients == [m \in Meters |-> F64Quotient(m, 1000)]

\* distance as f64 / 1000f64
trip_info_distance_to_km(distance) == trip_info_Quotients[distance]

trip_info_distance_to_previous_stop(t) ==
    trip_info_distance_to_km(t.distanceFromLastStop)

trip_info_distance_to_next_stop(t) ==
    LET stop == trip_info_next_stop(t)
    IN  IF stop.kind = "Some"
        THEN Some(Differences[trip_info_distance_to_km(
                                  t.stops[stop.value].info.distance)]
                             [trip_info_distance_to_previous_stop(t)])
        ELSE None

trip_info_distance_between_adjacent_stops(t) ==
    LET stop == trip_info_next_stop(t)
    IN  IF stop.kind = "Some"
        THEN Some(trip_info_distance_to_km(t.stops[stop.value].info.distance))
        ELSE None

\* format!("{} {}", self.trainType, self.vzn)
trip_info_train_identifier(t) == t.trainType \o <<" ">> \o t.vzn

(***************************************************************************)
(* impl TimeInfo (src/trip_info/time_info.rs)                              *)
(***************************************************************************)
arrival_delay(ti) == delay_string_to_duration(ti.arrivalDelay)

departure_delay(ti) == delay_string_to_duration(ti.departureDelay)

\* time::at and time::at_utc: the broken-down time of a Timespec in the
\* local zone or in UTC.  The calendar fields are a function of sec and the
\* zone; tm_nsec is nsec.
at(timespec) ==
    [zone |-> "local", sec |-> timespec.sec, tm_nsec |-> timespec.nsec]

at_utc(timespec) ==
    [zone |-> "utc", sec |-> timespec.sec, tm_nsec |-> timespec.nsec]

\* Timespec { sec: timestamp / 1000, nsec: (timestamp % 1000) as i32 * 1_000_000 }
\* the outcomes of the expression: a Timespec, or the panic of a multiplication
\* that overflows.
Timespec(timestamp) ==
    {IF nsec = Panic THEN Panic
     ELSE Value([sec |-> I64Div(timestamp, 1000), nsec |-> nsec.value]) :
        nsec \in I32Mul(AsI32(I64Rem(timestamp, 1000)), 1000000)}

timestamp_to_tm(timestamp) ==
    {IF spec = Panic THEN Panic ELSE Value(at(spec.value)) :
        spec \in Timespec(timestamp)}

\* match option { Some(timestamp) => Some(timestamp_to_tm(timestamp)), None => None }
OptionToTm(option) ==
    IF option = None THEN {None}
    ELSE {IF tm = Panic THEN Panic ELSE Some(tm.value) :
             tm \in timestamp_to_tm(option.value)}

scheduled_arrival(ti) == OptionToTm(ti.scheduledArrivalTime)

scheduled_departure(ti) == OptionToTm(ti.scheduledDepartureTime)

actual_arrival(ti) == OptionToTm(ti.actualArrivalTime)

actual_departure(ti) == OptionToTm(ti.actualDepartureTime)

(***************************************************************************)
(* impl Status, impl fmt::Display for Status (src/status.rs), and the      *)
(* Display of the Status of src/lib.rs.                                    *)
(***************************************************************************)
speed(s) == s.speed

coordinates(s) == [latitude |-> s.latitude, longitude |-> s.longitude]

\* The remainder taken after the cast: (serverTime as i32 % 1000) * 1_000_000.
server_time_cast_first(s) ==
    {IF nsec = Panic THEN Panic
     ELSE Value(at([sec |-> I64Div(s.serverTime, 1000), nsec |-> nsec.value])) :
        nsec \in I32Mul(I32Rem(AsI32(s.serverTime), 1000), 1000000)}

server_time(s) ==
    {IF spec = Panic THEN Panic ELSE Value(at(spec.value)) :
        spec \in Timespec(s.serverTime)}

\* time::strftime(format, &tm): the text, or an error where the platform
\* cannot render the format.
strftime(format, tm, unformattable) ==
    IF format \in unformattable THEN Err
    ELSE Ok([format |-> format, tm |-> tm])

\* {:width.precision} of an f32.
Fixed(value, width, precision) ==
    [value |-> value, width |-> width, precision |-> precision]

\* The error branch writing the train speed with another precision.
Written_other_precision(s, result) ==
    IF result.ok
      THEN <<"Speed: ", Fixed(s.speed, 5, 1), " km/h; Lat/Long: ",
             Fixed(s.latitude, 7, 4), ",", Fixed(s.longitude, 8, 4),
             "; Time: ", result.val>>
    ELSE <<"Speed: ", Fixed(s.speed, 3, 1), " km/h; Lat/Long: ",
           Fixed(s.latitude, 7, 4), ",", Fixed(s.longitude, 8, 4)>>

\* The text written by fmt, as the sequence of its literal and formatted
\* pieces.
Written(s, result) ==
    IF result.ok
      THEN <<"Speed: ", Fixed(s.speed, 5, 1), " km/h; Lat/Long: ",
             Fixed(s.latitude, 7, 4), ",", Fixed(s.longitude, 8, 4),
             "; Time: ", result.val>>
    ELSE <<"Speed: ", Fixed(s.speed, 5, 1), " km/h; Lat/Long: ",
           Fixed(s.latitude, 7, 4), ",", Fixed(s.longitude, 8, 4)>>

\* src/status.rs: local time, "%H:%M:%S".
fmt(s, unformattable) ==
    {IF spec = Panic THEN Panic
     ELSE Value(Written(s, strftime("%H:%M:%S", at(spec.value), unformattable))) :
        spec \in Timespec(s.serverTime)}

\* src/lib.rs: UTC, "%Y-%m-%d %H:%M:%S".
lib_fmt(s, unformattable) ==
    {IF spec = Panic THEN Panic
     ELSE Value(Written(s, strftime("%Y-%m-%d %H:%M:%S", at_utc(spec.value),
                                    unformattable))) :
        spec \in Timespec(s.serverTime)}

(***************************************************************************)
(* impl TrainInformation (src/lib.rs): the client.  What the server does   *)
(* with one request is an exchange: no HTTP response at all, or a response *)
(* with a status code and a body; the body is a text, or cannot be read.   *)
(* A text is a JSON document of a Status, of a TripInfo, or malformed.     *)
(***************************************************************************)
StatusCodes == {"Ok", "NotFound", "ServiceUnavailable"}

Texts ==
    [doc : {"status"},
     value : [speed : Speeds, latitude : {"50.1071"}, longitude : {"8.6638"},
              serverTime : {SampleTime, I64Small(TRUE, 1)}]]
      \cup [doc : {"trip"}, value : {ScenarioTrip}]
      \cup [doc : {"malformed"}, value : {<<>>}]

Exchanges ==
    [kind : {"no_response"}]
      \cup [kind : {"response"}, status : StatusCodes, readable : BOOLEAN,
            text : Texts]

ErrOf(e) == [ok |-> FALSE, val |-> e]

\* Result::unwrap
unwrap(result) == IF result.ok THEN result.val ELSE Panic

\* http_client.get(url).headers(http_headers).send()
send(exchange) ==
    IF exchange.kind = "no_response" THEN ErrOf("hyper::Error")
    ELSE Ok(exchange)

\* response.read_to_string(&mut text): the text is left in the buffer.
read_to_string(response) ==
    IF response.readable THEN Ok(response.text) ELSE ErrOf("io::Error")

\* The body read whatever the status of the response.
request_any_status(exchange) ==
    LET response == unwrap(send(exchange))
    IN  IF response = Panic THEN Panic
        ELSE IF unwrap(read_to_string(response)) = Panic THEN Panic
        ELSE Ok(response.text)

request(exchange) ==
    LET response == unwrap(send(exchange))
    IN  IF response = Panic THEN Panic
        ELSE IF response.status = "Ok"
          THEN IF unwrap(read_to_string(response)) = Panic THEN Panic
               ELSE Ok(response.text)
        ELSE ErrOf(response.status)

\* json::decode(&response)
deserialize_status(response) ==
    IF response.doc = "status" THEN Ok(response.value)
    ELSE ErrOf("DecoderError")

deserialize_trip_info(response) ==
    IF response.doc = "trip" THEN Ok(response.value)
    ELSE ErrOf("DecoderError")

get_status(exchange) ==
    LET requested == request(exchange)
    IN  IF requested = Panic THEN Panic
        ELSE IF requested.ok
          THEN IF deserialize_status(requested.val).ok
                 THEN Ok(deserialize_status(requested.val).val)
               ELSE Err
        ELSE Err

get_trip_info(exchange) ==
    LET requested == request(exchange)
    IN  IF requested = Panic THEN Panic
        ELSE IF requested.ok
          THEN IF deserialize_trip_info(requested.val).ok
                 THEN Ok(deserialize_trip_info(requested.val).val)
               ELSE Err
        ELSE Err

get_speed(exchange) ==
    LET got == get_status(exchange)
    IN  IF got = Panic THEN Panic
        ELSE IF got.ok THEN Ok(got.val.speed)
        ELSE Err

(***************************************************************************)
(* The state machine: a caller applies one query to the values.  A query   *)
(* that panics ends the process.                                           *)
(***************************************************************************)
\* A call of next_stop that moves the train on to the stop it returns.
Returns_advancing(op, arg, result) ==
    /\ status = "running"
    /\ call' = [op |-> op, arg |-> arg, result |-> result]
    /\ status' = IF result = Panic THEN "panicked" ELSE "running"
    /\ trip' = IF op = "next_stop"
               THEN [trip EXCEPT !.stopInfo.actualLast = trip.stopInfo.actualNext]
               ELSE trip
    /\ UNCHANGED <<timeInfo, trainStatus, env, snapshot>>

Returns(op, arg, result) ==
    /\ status = "running"
    /\ call' = [op |-> op, arg |-> arg, result |-> result]
    /\ status' = IF result = Panic THEN "panicked" ELSE "running"
    /\ UNCHANGED <<trip, timeInfo, trainStatus, env, snapshot>>

NoCall == [op |-> "none", arg |-> "", result |-> None]

Init ==
    /\ trip \in Trips
    /\ timeInfo = ScenarioTimeInfo
    /\ trainStatus = ScenarioStatus
    /\ env = {}
    /\ status = "running"
    /\ call = NoCall
    /\ snapshot = NoCall

DelayInit ==
    /\ trip = ScenarioTrip
    /\ timeInfo \in TimeInfos
    /\ trainStatus = ScenarioStatus
    /\ env = {}
    /\ status = "running"
    /\ call = NoCall
    /\ snapshot = NoCall

GetStop == \E id \in VicinityIds : Returns("get_stop", id, get_stop(trip, id))

NextStop == Returns("next_stop", "", next_stop(trip))

PreviousStop == Returns("previous_stop", "", previous_stop(trip))

DistanceToPreviousStop ==
    Returns("distance_to_previous_stop", "", Value(distance_to_previous_stop(trip)))

DistanceToNextStop ==
    Returns("distance_to_next_stop", "", distance_to_next_stop(trip))

DistanceBetweenAdjacentStops ==
    Returns("distance_between_adjacent_stops", "",
            distance_between_adjacent_stops(trip))

TotalDistance == Returns("total_distance", "", Value(total_distance(trip)))

TrainIdentifier == Returns("train_identifier", "", Value(train_identifier(trip)))

TrainType == Returns("train_type", "", Value(train_type(trip)))

TrainNumber == Returns("train_number", "", Value(train_number(trip)))

Origin == Returns("origin", "", origin(trip))

Destination == Returns("destination", "", destination(trip))

ArrivalDelay == Returns("arrival_delay", "", arrival_delay(timeInfo))

DepartureDelay == Returns("departure_delay", "", departure_delay(timeInfo))

Next ==
    \/ GetStop
    \/ NextStop
    \/ PreviousStop
    \/ DistanceToPreviousStop
    \/ DistanceToNextStop
    \/ DistanceBetweenAdjacentStops
    \/ TotalDistance
    \/ TrainIdentifier
    \/ TrainType
    \/ TrainNumber
    \/ Origin
    \/ Destination
    \/ ArrivalDelay
    \/ DepartureDelay

Spec == Init /\ [][Next]_vars

\* The conversion alone: one trip, its two distances drawn from Meters.
KmInit ==
    /\ trip \in {[ScenarioTrip EXCEPT !.distanceFromLastStop = last,
                                      !.totalDistance = total] :
                    last \in Meters, total \in Meters}
    /\ timeInfo = ScenarioTimeInfo
    /\ trainStatus = ScenarioStatus
    /\ env = {}
    /\ status = "running"
    /\ call = NoCall
    /\ snapshot = NoCall

DistanceToKm ==
    \E m \in Meters : Returns("distance_to_km", m, Value(distance_to_km(m)))

KmNext ==
    \/ DistanceToKm
    \/ DistanceToPreviousStop
    \/ TotalDistance

KmSpec == KmInit /\ [][KmNext]_vars

\* The Status and the times of a stop: every timestamp, every environment.
StatusInit ==
    /\ trip = ScenarioTrip
    /\ timeInfo \in TimetableInfos
    /\ trainStatus \in Statuses
    /\ env \in SUBSET Formats
    /\ status = "running"
    /\ call = NoCall
    /\ snapshot = NoCall

Speed == Returns("speed", "", Value(speed(trainStatus)))

Coordinates == Returns("coordinates", "", Value(coordinates(trainStatus)))

ServerTime == \E r \in server_time(trainStatus) : Returns("server_time", "", r)

Fmt == \E r \in fmt(trainStatus, env) : Returns("fmt", "", r)

LibFmt == \E r \in lib_fmt(trainStatus, env) : Returns("lib_fmt", "", r)

ScheduledArrival ==
    \E r \in scheduled_arrival(timeInfo) : Returns("scheduled_arrival", "", r)

ScheduledDeparture ==
    \E r \in scheduled_departure(timeInfo) :
        Returns("scheduled_departure", "", r)

ActualArrival ==
    \E r \in actual_arrival(timeInfo) : Returns("actual_arrival", "", r)

ActualDeparture ==
    \E r \in actual_departure(timeInfo) : Returns("actual_departure", "", r)

StatusNext ==
    \/ Speed
    \/ Coordinates
    \/ ServerTime
    \/ Fmt
    \/ LibFmt
    \/ ScheduledArrival
    \/ ScheduledDeparture
    \/ ActualArrival
    \/ ActualDeparture

StatusSpec == StatusInit /\ [][StatusNext]_vars

\* Several callers on the same values: a caller keeps the result of the last
\* call, to compare it with what the same query returns later.
ReadOnlyTrips ==
    {[ScenarioTrip EXCEPT !.stopInfo.actualNext = id, !.stops = stops] :
        id \in VicinityIds,
        stops \in {<<>>, ScenarioTrip.stops,
                   <<Stop("S2", 300), Stop("S2", 5000)>>}}

ReadOnlyInit ==
    /\ trip \in ReadOnlyTrips
    /\ timeInfo \in {ScenarioTimeInfo,
                      [ScenarioTimeInfo EXCEPT !.scheduledArrivalTime = None,
                                               !.arrivalDelay = <<"5">>]}
    /\ trainStatus \in {ScenarioStatus,
                         [ScenarioStatus EXCEPT !.serverTime = I64Min]}
    /\ env \in {{}, Formats}
    /\ status = "running"
    /\ call = NoCall
    /\ snapshot = NoCall

Remember ==
    /\ status = "running"
    /\ call # NoCall
    /\ snapshot' = call
    /\ call' = NoCall
    /\ UNCHANGED <<trip, timeInfo, trainStatus, env, status>>

ReadOnlyNext ==
    \/ Next
    \/ DistanceToKm
    \/ StatusNext
    \/ Remember

ReadOnlySpec == ReadOnlyInit /\ [][ReadOnlyNext]_vars

\* The queries of src/trip_info.rs, on every trip; the two vicinity ids that
\* no query of that revision reads are fixed.
TripInfoInit ==
    /\ trip \in {t \in Trips : /\ t.stopInfo.scheduledNext = "S1"
                                /\ t.stopInfo.finalStationEvaNr = "S2"}
    /\ timeInfo = ScenarioTimeInfo
    /\ trainStatus = ScenarioStatus
    /\ env = {}
    /\ status = "running"
    /\ call = NoCall
    /\ snapshot = NoCall

TripInfoGetStop ==
    \E id \in VicinityIds :
        Returns("trip_info::get_stop", id, trip_info_get_stop(trip, id))

TripInfoNextStop ==
    Returns("trip_info::next_stop", "", trip_info_next_stop(trip))

TripInfoPreviousStop ==
    Returns("trip_info::previous_stop", "", trip_info_previous_stop(trip))

TripInfoDistanceToKm ==
    \E m \in Meters :
        Returns("trip_info::distance_to_km", m,
                Value(trip_info_distance_to_km(m)))

TripInfoDistanceToPreviousStop ==
    Returns("trip_info::distance_to_previous_stop", "",
            Value(trip_info_distance_to_previous_stop(trip)))

TripInfoDistanceToNextStop ==
    Returns("trip_info::distance_to_next_stop", "",
            trip_info_distance_to_next_stop(trip))

TripInfoDistanceBetweenAdjacentStops ==
    Returns("trip_info::distance_between_adjacent_stops", "",
            trip_info_distance_between_adjacent_stops(trip))

TripInfoTrainIdentifier ==
    Returns("trip_info::train_identifier", "",
            Value(trip_info_train_identifier(trip)))

TripInfoNext ==
    \/ TripInfoGetStop
    \/ TripInfoNextStop
    \/ TripInfoPreviousStop
    \/ TripInfoDistanceToKm
    \/ TripInfoDistanceToPreviousStop
    \/ TripInfoDistanceToNextStop
    \/ TripInfoDistanceBetweenAdjacentStops
    \/ TripInfoTrainIdentifier

TripInfoSpec == TripInfoInit /\ [][TripInfoNext]_vars

\* The client: each call meets any exchange.
ClientInit ==
    /\ trip = ScenarioTrip
    /\ timeInfo = ScenarioTimeInfo
    /\ trainStatus = ScenarioStatus
    /\ env = {}
    /\ status = "running"
    /\ call = NoCall
    /\ snapshot = NoCall

GetStatus ==
    \E exchange \in Exchanges :
        Returns("get_status", exchange, get_status(exchange))

GetTripInfo ==
    \E exchange \in Exchanges :
        Returns("get_trip_info", exchange, get_trip_info(exchange))

GetSpeed ==
    \E exchange \in Exchanges :
        Returns("get_speed", exchange, get_speed(exchange))

ClientNext ==
    \/ GetStatus
    \/ GetTripInfo
    \/ GetSpeed

ClientSpec == ClientInit /\ [][ClientNext]_vars

DelaySpec == DelayInit /\ [][Next]_vars

(***************************************************************************)
(* Properties.                                                             *)
(***************************************************************************)
DelayCall == call.op \in {"arrival_delay", "departure_delay"}

\* The delay string the last call parsed.
DelayInput ==
    IF call.op = "arrival_delay" THEN timeInfo.arrivalDelay
    ELSE timeInfo.departureDelay

\* ^[+-]\d+$
Conforming(s) ==
    /\ Len(s) >= 2
    /\ s[1] \in {"+", "-"}
    /\ \A i \in 2..Len(s) : s[i] \in Digits

\* The number a digit string denotes: the last digit plus ten times the rest.
RECURSIVE Decimal(_)
Decimal(digits) ==
    IF digits = <<>> THEN 0
    ELSE DigitVal[digits[Len(digits)]]
         + 10 * Decimal(SubSeq(digits, 1, Len(digits) - 1))

\* The stops of the trip whose station id is id, as indexes, and the first.
Matches(id) == {i \in 1..Len(trip.stops) : trip.stops[i].station.evaNr = id}

FirstMatch(id) ==
    IF Matches(id) = {} THEN None
    ELSE Some(CHOOSE i \in Matches(id) : \A j \in Matches(id) : i <= j)

\* C1: a non-empty delay string that does not match ^[+-]\d+$ never yields a
\* duration: its outcome is an error.
C1_NonConformingNeverDuration ==
    (DelayCall /\ DelayInput # <<>> /\ ~Conforming(DelayInput))
        => call.result.kind # "Duration"

\* C2: no delay string (and no query) ends the process: every error comes
\* back to the caller as a value, no panic is reachable.
C2_NoPanicReachable == status # "panicked" /\ call.result # Panic

\* C3: a sign followed by digits denoting N parses to exactly +N minutes for
\* "+" and exactly -N minutes for "-".
C3_SignedMinutes ==
    (DelayCall /\ Conforming(DelayInput))
        => call.result =
             Minutes(IF DelayInput[1] = "+" THEN Decimal(Tail(DelayInput))
                     ELSE 0 - Decimal(Tail(DelayInput)))

C3_Witness ==
    /\ call.op = "arrival_delay"
    /\ timeInfo.arrivalDelay = <<"-", "1", "2">>
    /\ call.result = Minutes(-12)

\* C4: the empty string, "+0" and "-0" all parse to a duration of 0 minutes.
C4_ZeroDelays ==
    (DelayCall /\ DelayInput \in {<<>>, <<"+", "0">>, <<"-", "0">>})
        => call.result = Minutes(0)

C4_Witness ==
    /\ call.op = "departure_delay"
    /\ timeInfo.arrivalDelay = <<>>
    /\ timeInfo.departureDelay = <<"-", "0">>
    /\ call.result = Minutes(0)

\* C5: get_stop(id) is the stop at the smallest index whose station id is id,
\* and is absent exactly when no stop has that id.
C5_GetStopFirstMatch ==
    call.op = "get_stop" => call.result = FirstMatch(call.arg)

C5_Witness ==
    /\ call.op = "get_stop"
    /\ Len(trip.stops) = 2
    /\ trip.stops[1].station.evaNr = call.arg
    /\ trip.stops[2].station.evaNr = call.arg
    /\ trip.stops[1].info.distance # trip.stops[2].info.distance
    /\ call.result = Some(1)

\* C6: when vicinity.actual_next names no stop, next_stop,
\* distance_to_next_stop and distance_between_adjacent_stops return absent,
\* and none of them panics.
C6_LookupMissIsAbsent ==
    (/\ Matches(trip.stopInfo.actualNext) = {}
     /\ call.op \in {"next_stop", "distance_to_next_stop",
                     "distance_between_adjacent_stops"})
        => call.result = None /\ status = "running"

C6_Witness ==
    /\ call.op = "distance_to_next_stop"
    /\ trip.stops # <<>>
    /\ Matches(trip.stopInfo.actualNext) = {}
    /\ call.result = None

\* 3.0
F64Three == [neg |-> FALSE, exp |-> 1, mant |-> <<1, 1>> \o Zeros(MantissaBits - 2)]

\* The stop next_stop() resolves to, when it resolves.
NextResolved == FirstMatch(trip.stopInfo.actualNext).value

\* C7 as stated: when next_stop() resolves to s, distance_to_next_stop() is
\* present and equals distance_to_km(s.distance) -
\* distance_to_km(distance_from_last_stop), that is (s.distance -
\* distance_from_last_stop) meters expressed in km.
C7_DifferenceInMetersAsKm ==
    (/\ call.op = "distance_to_next_stop"
     /\ Matches(trip.stopInfo.actualNext) # {})
        => /\ call.result =
                Some(F64Sub(F64Quotient(trip.stops[NextResolved].info.distance, 1000),
                            F64Quotient(trip.distanceFromLastStop, 1000)))
           /\ call.result =
                Some(F64Quotient(trip.stops[NextResolved].info.distance
                                 - trip.distanceFromLastStop, 1000))

\* C7 (amended): when next_stop() resolves to s, distance_to_next_stop() is
\* present and is the f64 difference of the two quotients, unclamped: negative
\* exactly when distance_from_last_stop exceeds s.distance.  It is the
\* difference in meters expressed in km when both distances are whole
\* kilometers (5000 and 2000 give 3.0).
C7_DifferenceOfKm ==
    (/\ call.op = "distance_to_next_stop"
     /\ Matches(trip.stopInfo.actualNext) # {})
        => LET next == trip.stops[NextResolved].info.distance
               last == trip.distanceFromLastStop
           IN  /\ call.result =
                    Some(F64Sub(F64Quotient(next, 1000), F64Quotient(last, 1000)))
               /\ F64Negative(call.result.value) <=> last > next
               /\ (next % 1000 = 0 /\ last % 1000 = 0)
                    => call.result = Some(F64Quotient(next - last, 1000))
               /\ (next = 5000 /\ last = 2000) => call.result = Some(F64Three)

C7_Witness ==
    /\ call.op = "distance_to_next_stop"
    /\ trip.stops = <<Stop("S1", 0), Stop("S2", 5000)>>
    /\ trip.stopInfo.actualNext = "S2"
    /\ trip.distanceFromLastStop = 2000
    /\ call.result = Some(F64Three)

\* C8: distance_between_adjacent_stops() is present exactly when next_stop()
\* resolves, and is then distance_to_km of the distance of the stop that
\* vicinity.actual_next names.
C8_AdjacentIsNextDistance ==
    call.op = "distance_between_adjacent_stops"
        => IF Matches(trip.stopInfo.actualNext) = {} THEN call.result = None
           ELSE call.result =
                  Some(F64Quotient(trip.stops[NextResolved].info.distance, 1000))

C8_Witness ==
    /\ call.op = "distance_between_adjacent_stops"
    /\ trip.stops = <<Stop("S1", 300), Stop("S2", 5000)>>
    /\ trip.stopInfo.actualNext = "S2"
    /\ trip.stopInfo.actualLast = "S1"
    /\ call.result = Some(F64Quotient(5000, 1000))

\* C9: next_stop(), previous_stop() and destination() are get_stop on
\* vicinity.actual_next, vicinity.actual_last and vicinity.final_station_id.
C9_NavigationIsLookup ==
    /\ call.op = "next_stop"
         => /\ call.result = FirstMatch(trip.stopInfo.actualNext)
            /\ call.result = get_stop(trip, trip.stopInfo.actualNext)
    /\ call.op = "previous_stop"
         => /\ call.result = FirstMatch(trip.stopInfo.actualLast)
            /\ call.result = get_stop(trip, trip.stopInfo.actualLast)
    /\ call.op = "destination"
         => /\ call.result = FirstMatch(trip.stopInfo.finalStationEvaNr)
            /\ call.result = get_stop(trip, trip.stopInfo.finalStationEvaNr)

C9_Witness ==
    /\ call.op = "next_stop"
    /\ trip.stops = <<Stop("S1", 0), Stop("S2", 5000)>>
    /\ trip.stopInfo.actualNext = "S2"
    /\ trip.stopInfo.scheduledNext = "S1"
    /\ trip.stopInfo.actualLastStarted = "S9"
    /\ call.result = Some(2)

\* C10: origin() is absent when stops is empty and is stops[0] otherwise,
\* whatever the vicinity says.
C10_OriginIsFirst ==
    call.op = "origin"
        => call.result = IF trip.stops = <<>> THEN None ELSE Some(1)

C10_Witness ==
    /\ call.op = "origin"
    /\ Len(trip.stops) = 2
    /\ trip.stops[1].station.evaNr = "S1"
    /\ trip.stops[2].station.evaNr = "S2"
    /\ trip.stopInfo.actualLast = "S2"
    /\ trip.stopInfo.finalStationEvaNr = "S2"
    /\ call.result = Some(1)

\* d * bits as a bit string, for a number d > 0: the shifted copies of bits
\* for the set bits of d, added up.
RECURSIVE TimesBits(_, _)
TimesBits(d, bits) ==
    IF d = 0 THEN <<>>
    ELSE LET rest == TimesBits(d \div 2, bits) \o <<0>>
             n == IF Len(rest) > Len(bits) THEN Len(rest) ELSE Len(bits)
         IN  IF d % 2 = 0 THEN rest
             ELSE AddBits(PadLeft(rest, n), PadLeft(bits, n))

RECURSIVE NatOfBits(_)
NatOfBits(bits) ==
    IF bits = <<>> THEN 0
    ELSE 2 * NatOfBits(SubSeq(bits, 1, Len(bits) - 1)) + bits[Len(bits)]

\* x is the f64 nearest to the rational n / d (d > 0, |n / d| < 2^52): it has
\* the sign of n, and with M its significand and 2^(x.exp - 52) its unit,
\* |d * M - |n| * 2^(52 - x.exp)| <= d / 2, the significand even on a tie.
NearestF64(x, n, d) ==
    IF n = 0 THEN x = F64Zero
    ELSE /\ x.neg = (n < 0)
         /\ x.mant[1] = 1
         /\ x.exp <= MantissaBits - 1
         /\ LET scaled == BitsOfNat(Abs(n)) \o Zeros(MantissaBits - 1 - x.exp)
                product == TimesBits(d, x.mant)
                len == IF Len(scaled) > Len(product) THEN Len(scaled)
                       ELSE Len(product)
                a == PadLeft(scaled, len)
                b == PadLeft(product, len)
                gap == StripLeadingZeros(IF GeqBits(a, b) THEN SubBits(a, b)
                                         ELSE SubBits(b, a))
            IN  /\ Len(gap) <= Len(BitsOfNat(d))
                /\ 2 * NatOfBits(gap) <= d
                /\ 2 * NatOfBits(gap) = d => x.mant[MantissaBits] = 0

\* 1.0 and -0.5
F64One == [neg |-> FALSE, exp |-> 0, mant |-> <<1>> \o Zeros(MantissaBits - 1)]

F64MinusHalf ==
    [neg |-> TRUE, exp |-> -1, mant |-> <<1>> \o Zeros(MantissaBits - 1)]

\* C11: distance_to_km(m) is m / 1000 as an f64, neither rounded nor truncated
\* to whole kilometers and with the sign of m: 1000 gives 1.0, 0 gives 0.0,
\* -500 gives -0.5; distance_to_previous_stop() is distance_to_km of
\* distance_from_last_stop and total_distance() is distance_to_km of
\* total_distance.
C11_KmIsMetersOverThousand ==
    /\ call.op = "distance_to_km"
         => /\ NearestF64(call.result.value, call.arg, 1000)
            /\ call.arg = 1000 => call.result = Value(F64One)
            /\ call.arg = 0 => call.result = Value(F64Zero)
            /\ call.arg = -500 => call.result = Value(F64MinusHalf)
    /\ call.op = "distance_to_previous_stop"
         => /\ NearestF64(call.result.value, trip.distanceFromLastStop, 1000)
            /\ call.result = Value(F64Quotient(trip.distanceFromLastStop, 1000))
    /\ call.op = "total_distance"
         => /\ NearestF64(call.result.value, trip.totalDistance, 1000)
            /\ call.result = Value(F64Quotient(trip.totalDistance, 1000))

C11_Witness ==
    /\ call.op = "distance_to_km"
    /\ call.arg = -500
    /\ call.result = Value(F64MinusHalf)
    /\ trip.distanceFromLastStop = 999
    /\ trip.totalDistance = 1999

\* The conversions of a timestamp the last call has made, as far as its
\* result shows them: the timestamp and the broken-down time made of it.
Converted ==
    IF call.result = Panic THEN {}
    ELSE IF call.op = "server_time"
      THEN {[ms |-> trainStatus.serverTime, tm |-> call.result.value]}
    ELSE IF call.op \in {"fmt", "lib_fmt"}
      THEN IF Len(call.result.value) = 8
             THEN {[ms |-> trainStatus.serverTime,
                    tm |-> call.result.value[8].tm]}
           ELSE {}
    ELSE IF call.result = None THEN {}
    ELSE IF call.op = "scheduled_arrival"
      THEN {[ms |-> timeInfo.scheduledArrivalTime.value,
             tm |-> call.result.value]}
    ELSE IF call.op = "scheduled_departure"
      THEN {[ms |-> timeInfo.scheduledDepartureTime.value,
             tm |-> call.result.value]}
    ELSE IF call.op = "actual_arrival"
      THEN {[ms |-> timeInfo.actualArrivalTime.value,
             tm |-> call.result.value]}
    ELSE IF call.op = "actual_departure"
      THEN {[ms |-> timeInfo.actualDepartureTime.value,
             tm |-> call.result.value]}
    ELSE {}

\* mag * k + carry on magnitudes, from the lowest limb up.
RECURSIVE MulAdd(_, _, _)
MulAdd(mag, k, carry) ==
    IF mag = <<>> THEN [limbs |-> <<>>, carry |-> carry]
    ELSE LET cur == mag[Len(mag)] * k + carry
             rest == MulAdd(SubSeq(mag, 1, Len(mag) - 1), k, cur \div Limb)
         IN  [limbs |-> Append(rest.limbs, cur % Limb), carry |-> rest.carry]

\* C12: the conversion of epoch milliseconds (server_time, the Display of a
\* Status, timestamp_to_tm) takes seconds = ms / 1000 truncated toward zero and
\* nanoseconds = (ms % 1000) * 1_000_000 with the remainder carrying the sign
\* of ms, so that seconds * 1000 + nanoseconds / 1_000_000 = ms for positive,
\* zero and negative timestamps.
C12_SecondsAndNanosRecombine ==
    \A c \in Converted :
        LET millis == c.tm.tm_nsec \div 1000000
            sum == MulAdd(c.tm.sec.mag, 1000, Abs(millis))
        IN  /\ c.tm.tm_nsec = millis * 1000000
            /\ Abs(millis) < 1000
            /\ sum.carry = 0
            /\ sum.limbs = c.ms.mag
            /\ c.tm.sec.neg => c.ms.neg
            /\ (~c.tm.sec.neg /\ c.tm.sec.mag # ZeroMag) => ~c.ms.neg
            /\ millis < 0 => c.ms.neg
            /\ millis > 0 => ~c.ms.neg

C12_Witness ==
    /\ call.op = "server_time"
    /\ trainStatus.serverTime = I64Min
    /\ call.result.value.tm_nsec = -808000000
    /\ call.result.value.sec.neg

TimeQueries ==
    {"server_time", "fmt", "lib_fmt", "scheduled_arrival",
     "scheduled_departure", "actual_arrival", "actual_departure"}

\* mag modulo d, limb by limb.
RECURSIVE Residue(_, _, _)
Residue(mag, d, r) ==
    IF mag = <<>> THEN r
    ELSE Residue(Tail(mag), d, (r * (Limb % d) + Head(mag)) % d)

\* C17: for every i64 timestamp, the ends of the range included,
\* ((ms % 1000) as i32) * 1_000_000 neither overflows nor wraps: the cast
\* keeps the remainder, and the product is a multiple of 1_000_000 within
\* [-999_000_000, 999_000_000].
C17_NanosecondsNeverOverflow ==
    /\ call.op \in TimeQueries => call.result # Panic
    /\ \A c \in Converted :
          LET millis == c.tm.tm_nsec \div 1000000
          IN  /\ c.tm.tm_nsec = millis * 1000000
              /\ c.tm.tm_nsec >= -999000000
              /\ c.tm.tm_nsec <= 999000000
              /\ Abs(millis) = Residue(c.ms.mag, 1000, 0)
              /\ millis < 0 => c.ms.neg
              /\ millis > 0 => ~c.ms.neg

C17_Witness ==
    /\ call.op = "server_time"
    /\ trainStatus.serverTime = I64Max
    /\ call.result.value.tm_nsec = 807000000

\* The speed and position written by both branches of fmt.
Prefix ==
    <<"Speed: ", [value |-> trainStatus.speed, width |-> 5, precision |-> 1],
      " km/h; Lat/Long: ",
      [value |-> trainStatus.latitude, width |-> 7, precision |-> 4], ",",
      [value |-> trainStatus.longitude, width |-> 8, precision |-> 4]>>

\* The text of a Display whose time format is format.
Rendered(format) ==
    /\ call.result.kind = "Value"
    /\ IF format \in env THEN call.result.value = Prefix
       ELSE /\ Len(call.result.value) = Len(Prefix) + 2
            /\ SubSeq(call.result.value, 1, Len(Prefix)) = Prefix
            /\ call.result.value[Len(Prefix) + 1] = "; Time: "
            /\ call.result.value[Len(Prefix) + 2].format = format

\* C13: the Display of a Status never fails because of the timestamp: where
\* strftime succeeds the output is the speed and position followed by
\* "; Time: <formatted>", where it fails the output is the same speed and
\* position with the suffix left out.
C13_DisplayOmitsUnformattableTime ==
    /\ call.op = "fmt" => Rendered("%H:%M:%S")
    /\ call.op = "lib_fmt" => Rendered("%Y-%m-%d %H:%M:%S")

C13_Witness ==
    /\ call.op = "fmt"
    /\ "%H:%M:%S" \in env
    /\ "%Y-%m-%d %H:%M:%S" \notin env
    /\ call.result = Value(Prefix)

ClientQueries == {"get_status", "get_trip_info", "get_speed"}

\* The exchange of the last call yields a body: an OK response, read.
YieldsBody ==
    /\ call.arg.kind = "response"
    /\ call.arg.status = "Ok"
    /\ call.arg.readable

\* The kind of document the last call decodes.
Wanted == IF call.op = "get_trip_info" THEN "trip" ELSE "status"

\* What the last call returns from a body that decodes.
Decoded ==
    IF call.op = "get_speed" THEN call.arg.text.value.speed
    ELSE call.arg.text.value

C16_RevisionsAgree ==
    /\ call.op = "trip_info::get_stop" => call.result = get_stop(trip, call.arg)
    /\ call.op = "trip_info::next_stop" => call.result = next_stop(trip)
    /\ call.op = "trip_info::previous_stop" => call.result = previous_stop(trip)
    /\ call.op = "trip_info::distance_to_km"
         => call.result = Value(distance_to_km(call.arg))
    /\ call.op = "trip_info::distance_to_previous_stop"
         => call.result = Value(distance_to_previous_stop(trip))
    /\ call.op = "trip_info::distance_to_next_stop"
         => call.result = distance_to_next_stop(trip)
    /\ call.op = "trip_info::distance_between_adjacent_stops"
         => call.result = distance_between_adjacent_stops(trip)
    /\ call.op = "trip_info::train_identifier"
         => call.result = Value(train_identifier(trip))

C16_Witness ==
    /\ call.op = "trip_info::previous_stop"
    /\ call.result = Some(2)
    /\ previous_stop(trip) = Some(2)
    /\ trip.stopInfo.actualLast # trip.stopInfo.actualLastStarted

====
